---- MODULE Spec2Model ----
(***************************************************************************)
(* State-machine model of the timeline package (packages/timeline/src):    *)
(*   - TimelineRootProvider state (currentTime, max, trim handles) and the *)
(*     keyboard / mouse handlers of Timeline.Playhead, Timeline.LeftHandle,*)
(*     Timeline.RightHandle and Timeline.Content;                          *)
(*   - the useControllableState hook;                                      *)
(*   - the useAutoScroll hook (requestAnimationFrame loop);                *)
(*   - the useScale hook.                                                  *)
(* Times are milliseconds, positions are CSS pixels.  Every value the      *)
(* model feeds to `step / 10` and to the px <-> ms conversions is chosen   *)
(* so that the quotient is an integer, hence \div is exact.                *)
(***************************************************************************)
EXTENDS Integers, Sequences, FiniteSets, TLC

VARIABLES
  \* ---- TimelineRootProvider / handle components -------------------------
  currentTime,          \* value of the currentTime controllable state
  controlledTime,       \* TRUE iff the `currentTime` prop is supplied
  max,                  \* const [max, setMax] = useState(DEFAULT_TIMELINE_MAX)
  leftHandlePosition,   \* useState(0)
  rightHandlePosition,  \* useState(DEFAULT_TIMELINE_MAX)
  step,                 \* prop
  minGap,               \* prop
  constraints,          \* which custom constraint functions are supplied
  drag,                 \* the document listeners installed by a mousedown,
                        \* with the values their closures captured
  styleLeft,            \* style.left (px) of the playhead and handle elements
  calls,                \* consumer callbacks invoked by the last handler
  lastOp,               \* the handler that ran last, with its inputs
  \* ---- useControllableState ---------------------------------------------
  csInternal,           \* internalValue of useState(defaultValue)
  csQueue,              \* state updates queued by setInternalValue
  csControlled,         \* the `controlled` prop of the last render
  csValue,              \* the value returned by the last render
  csOnChange,           \* arguments onChange was called with since the render
  csLast,               \* the last operation on the hook
  \* ---- useAutoScroll ----------------------------------------------------
  isInitializedRef,
  rafIdRef,
  lastMouseEventRef,    \* clientX of the stored MouseEvent, or Null
  containerRef,         \* Null or the container element
  onScrollChangeRef,    \* Null or the registered callback
  scrollLeft,           \* container.scrollLeft, in units of 1 / SpeedDen px
  rafPending,           \* animation frame ids requested and not yet run
  rafNext,              \* next id requestAnimationFrame hands out
  scrollCfg,            \* options of the hook
  frame,                \* what the last loop frame did
  stopped,              \* TRUE from stopAutoScroll until the next startAutoScroll
  \* ---- useScale -----------------------------------------------------------
  mounted,              \* "no", "yes" or "unmounted"
  scaleConfig,          \* the config of the last render (= configRef.current)
  durationMs,           \* the durationMs prop of the last render, which the
                        \* current recalc closes over
  el,                   \* containerRef.current: None or Some(clientWidth)
  pxPerMs,              \* pxPerMsRef.current as a fraction <<num, den>>
  currentScalingTypeRef,
  returnedScalingType,  \* currentScalingType returned by the last render
  resizeListener,       \* TRUE iff recalc is a listener of window "resize"
  recalcLog,            \* the last recalc: its config, element and duration
  scaleOp,              \* the last step of useScale and the number of times
                        \* it ran recalc
  \* Timeline.Reorder
  orderedTrackIds,      \* useState: the order of the track ids
  dragState,            \* useState: draggedTrackId, dragOverTrackId, ...
  dragListeners,        \* the document listeners of the drags in progress,
                        \* each with the trackId and dragState it closes over
  strategy,             \* prop
  disabled,             \* prop
  reorderLog            \* the last handler and the onReorder calls it made

timelineVars == <<currentTime, controlledTime, max, leftHandlePosition,
                  rightHandlePosition, step, minGap, constraints, drag,
                  styleLeft, calls, lastOp>>
ctlVars == <<csInternal, csQueue, csControlled, csValue, csOnChange, csLast>>
scrollVars == <<isInitializedRef, rafIdRef, lastMouseEventRef, containerRef,
                onScrollChangeRef, scrollLeft, rafPending, rafNext, scrollCfg,
                frame, stopped>>
scaleVars == <<mounted, scaleConfig, durationMs, el, pxPerMs,
               currentScalingTypeRef, returnedScalingType, resizeListener,
               recalcLog, scaleOp>>
reorderVars == <<orderedTrackIds, dragState, dragListeners, strategy, disabled,
                 reorderLog>>
vars == <<timelineVars, ctlVars, scrollVars, scaleVars, reorderVars>>

Null == "null"
\* an optional number is a sequence of length 0 or 1
None == <<>>
Some(v) == <<v>>

Max2(a, b) == IF a >= b THEN a ELSE b
Abs(n) == IF n < 0 THEN 0 - n ELSE n
Min2(a, b) == IF a <= b THEN a ELSE b

(***************************************************************************)
(* TimelineRootProvider                                                    *)
(***************************************************************************)
min == 0
DEFAULT_TIMELINE_MAX == 10000

\* 1 / pxPerMs of the timeline model: the scale is fixed at 100 px per second
MsPerPx == 10

msToPixels(ms) == ms \div MsPerPx
pixelsToMs(px) == px * MsPerPx

\* input sets
StepChoices == {5000}
\* the handles' fine step is a tenth of step
TrimStepChoices == {25000}
MinGapChoices == {0, 2500, 10000}
LayerEnds == {4000, 12000}
Keys == {"ArrowLeft", "ArrowRight", "Home", "End", "Enter", "a"}
\* pointer x relative to the container's left edge, in px
MousePx == {-50, 250, 1300}
\* values a custom constraint function may return, in ms
CustomReturns == {-2000, 5000, 15000}
\* times proposed by an arbitrary consumer of the context's onTimeChange
ConsumerTimes == {-1000, 2500, 11000}
\* scroll deltas (px) reported to the drag's auto-scroll callback
ScrollDeltas == {-250, 250}

NoCalls == [onMove |-> None, onTimeChange |-> None, onDrag |-> None]
NoDrag == [kind |-> "none", left |-> 0, right |-> 0, max |-> 0]

NoOp == [op |-> "init", key |-> Null, shiftKey |-> FALSE, time |-> None,
         max |-> 0]
Op(name) == [NoOp EXCEPT !.op = name]

\* the effects that write style.left after a render: the playhead's runs when
\* currentTime changed, a handle's whenever its position or isDragging
\* changed; none writes while its element is being dragged
SyncStyle(st, dr, ctOld, ctNew, l, r) ==
  [playhead |-> IF dr.kind # "playhead" /\ ctNew # ctOld
                  THEN msToPixels(ctNew) ELSE st.playhead,
   left |-> IF dr.kind = "left" THEN st.left ELSE msToPixels(l),
   right |-> IF dr.kind = "right" THEN st.right ELSE msToPixels(r)]

\* handleTimeChange without the lower clamp
handleTimeChangeNoLowerClamp(time, m) == Min2(m, time)

\* handleTimeChange of the render whose max is m: the clampedTime it passes
\* to setCurrentTime
handleTimeChange(time, m) == Max2(min, Min2(m, time))

\* setCurrentTime(clampedTime, e): useControllableState stores the value only
\* when uncontrolled, and calls the consumer's onTimeChange either way
setCurrentTime(clampedTime) ==
  IF controlledTime THEN currentTime ELSE clampedTime

applyPlayheadConstraints(proposedTime, m, custom) ==
  LET constrainedTime == Max2(min, Min2(m, proposedTime))
  IN IF custom = None
       THEN constrainedTime
       ELSE Max2(min, Min2(m, custom[1]))

\* a left handle that stores what its custom constraint returned
applyLeftHandleConstraintsUnclamped(proposedPosition, right, custom) ==
  LET maxAllowed == right - minGap
  IN IF custom = None
       THEN Max2(min, Min2(proposedPosition, maxAllowed))
       ELSE custom[1]

applyLeftHandleConstraints(proposedPosition, right, custom) ==
  LET maxAllowed == right - minGap
      constrainedPosition == Max2(min, Min2(proposedPosition, maxAllowed))
  IN IF custom = None
       THEN constrainedPosition
       ELSE Max2(min, Min2(custom[1], maxAllowed))

applyRightHandleConstraints(proposedPosition, left, m, custom) ==
  LET minAllowed == left + minGap
      constrainedPosition == Min2(m, Max2(proposedPosition, minAllowed))
  IN IF custom = None
       THEN constrainedPosition
       ELSE Min2(m, Max2(custom[1], minAllowed))

\* what a constraint slot returns for one call: any of CustomReturns when the
\* consumer supplied a function, nothing when the slot is empty
CustomOf(which) ==
  IF constraints[which] THEN {Some(v) : v \in CustomReturns} ELSE {None}

\* context value: setLeftHandlePosition: (pos) => setLeftHandlePosition(Math.max(0, pos))
setLeftHandlePosition(pos) == Max2(0, pos)

InitTimelineIdle ==
  /\ currentTime = 0
  /\ controlledTime = FALSE
  /\ max = DEFAULT_TIMELINE_MAX
  /\ leftHandlePosition = 0
  /\ rightHandlePosition = DEFAULT_TIMELINE_MAX
  /\ step = 1000
  /\ minGap = 1000
  /\ constraints = [playhead |-> FALSE, leftHandle |-> FALSE,
                    rightHandle |-> FALSE]
  /\ drag = NoDrag
  /\ styleLeft = [playhead |-> 0, left |-> 0,
                  right |-> msToPixels(DEFAULT_TIMELINE_MAX)]
  /\ calls = NoCalls
  /\ lastOp = NoOp

\* the props are fixed for a run; a specification varies the ones it uses
InitTimeline(stepChoices, controlledChoices, minGapChoices, customChoices) ==
  /\ currentTime = 0
  /\ controlledTime \in controlledChoices
  /\ max = DEFAULT_TIMELINE_MAX
  /\ leftHandlePosition = 0
  /\ rightHandlePosition = DEFAULT_TIMELINE_MAX
  /\ step \in stepChoices
  /\ minGap \in minGapChoices
  /\ constraints \in customChoices
  /\ drag = NoDrag
  /\ styleLeft = [playhead |-> 0, left |-> 0,
                  right |-> msToPixels(DEFAULT_TIMELINE_MAX)]
  /\ calls = NoCalls
  /\ lastOp = NoOp

(***************************************************************************)
(* Timeline.Playhead, Timeline.Content and the consumers of currentTime    *)
(***************************************************************************)
\* one delivery through the context's onTimeChange (= handleTimeChange of the
\* render whose max is m); `moved` is what onMove received, if anything
DeliverTime(name, time, m, moved, style) ==
  LET clampedTime == handleTimeChange(time, m)
      ct == setCurrentTime(clampedTime)
  IN /\ currentTime' = ct
     /\ calls' = [NoCalls EXCEPT !.onMove = moved,
                                 !.onTimeChange = Some(clampedTime)]
     /\ styleLeft' = SyncStyle(style, drag, currentTime, ct,
                               leftHandlePosition, rightHandlePosition)
     /\ lastOp' = [name EXCEPT !.time = Some(time), !.max = m]

\* handleKeyDown ignoring the Shift modifier
PlayheadProposalIgnoringShift(key, shiftKey) ==
  CASE key = "ArrowLeft" -> currentTime - step
    [] key = "ArrowRight" -> currentTime + step
    [] key = "Home" -> min
    [] key = "End" -> max

PlayheadProposal(key, shiftKey) ==
  LET fineStep == step \div 10
      moveStep == IF shiftKey THEN fineStep ELSE step
  IN CASE key = "ArrowLeft" -> currentTime - moveStep
       [] key = "ArrowRight" -> currentTime + moveStep
       [] key = "Home" -> min
       [] key = "End" -> max

PlayheadKeyDown ==
  \E key \in Keys, shiftKey \in BOOLEAN, custom \in CustomOf("playhead") :
    LET name == [Op("PlayheadKeyDown") EXCEPT !.key = key,
                                              !.shiftKey = shiftKey]
    IN /\ IF key \in {"ArrowLeft", "ArrowRight", "Home", "End"}
            THEN LET constrained == applyPlayheadConstraints(
                                      PlayheadProposal(key, shiftKey), max, custom)
                 IN DeliverTime(name, constrained, max, Some(constrained),
                                styleLeft)
            ELSE /\ lastOp' = name
                 /\ calls' = NoCalls
                 /\ UNCHANGED <<currentTime, styleLeft>>
       /\ UNCHANGED <<controlledTime, max, leftHandlePosition,
                      rightHandlePosition, step, minGap, constraints, drag>>

PlayheadMouseDown ==
  /\ drag.kind = "none"
  /\ drag' = [NoDrag EXCEPT !.kind = "playhead", !.max = max]
  /\ calls' = NoCalls
  /\ lastOp' = Op("PlayheadMouseDown")
  /\ UNCHANGED <<currentTime, controlledTime, max, leftHandlePosition,
                 rightHandlePosition, step, minGap, constraints, styleLeft>>

\* onMouseMove of the playhead drag; needsScroll stands for
\* needsLeftScroll || needsRightScroll, which depend on the scroll container
PlayheadMouseMove ==
  /\ drag.kind = "playhead"
  /\ \E x \in MousePx, needsScroll \in BOOLEAN,
        custom \in CustomOf("playhead") :
       IF needsScroll
         THEN /\ calls' = NoCalls
              /\ lastOp' = Op("PlayheadMouseMove")
              /\ UNCHANGED <<currentTime, styleLeft>>
         ELSE LET newX == Max2(0, x)
                  timeMs == pixelsToMs(newX)
                  constrainedTime ==
                    applyPlayheadConstraints(timeMs, drag.max, custom)
                  constrainedPos == msToPixels(constrainedTime)
              IN DeliverTime(Op("PlayheadMouseMove"), constrainedTime, drag.max,
                             Some(constrainedTime),
                             [styleLeft EXCEPT !.playhead = constrainedPos])
  /\ UNCHANGED <<controlledTime, max, leftHandlePosition, rightHandlePosition,
                 step, minGap, constraints, drag>>

\* the onScrollChange callback the playhead drag passed to startAutoScroll
PlayheadAutoScrollChange ==
  /\ drag.kind = "playhead"
  /\ \E scrollDelta \in ScrollDeltas, shouldAllowAutoScroll \in BOOLEAN,
        custom \in CustomOf("playhead") :
       IF ~shouldAllowAutoScroll
         THEN /\ calls' = NoCalls
              /\ lastOp' = Op("PlayheadAutoScrollChange")
              /\ UNCHANGED <<currentTime, styleLeft>>
         ELSE LET currentLeft == styleLeft.playhead
                  newLeft == Max2(0, currentLeft + scrollDelta)
                  timeMs == pixelsToMs(newLeft)
                  constrainedTime ==
                    applyPlayheadConstraints(timeMs, drag.max, custom)
                  constrainedPos == msToPixels(constrainedTime)
              IN DeliverTime(Op("PlayheadAutoScrollChange"), constrainedTime,
                             drag.max, Some(constrainedTime),
                             [styleLeft EXCEPT !.playhead = constrainedPos])
  /\ UNCHANGED <<controlledTime, max, leftHandlePosition, rightHandlePosition,
                 step, minGap, constraints, drag>>

PlayheadMouseUp ==
  /\ drag.kind = "playhead"
  /\ drag' = NoDrag
  /\ calls' = NoCalls
  /\ lastOp' = Op("PlayheadMouseUp")
  /\ UNCHANGED <<currentTime, controlledTime, max, leftHandlePosition,
                 rightHandlePosition, step, minGap, constraints, styleLeft>>

\* Timeline.Content handleKeyDown: Home and End go straight to onTimeChange
ContentKeyDown ==
  \E key \in Keys :
    /\ IF key \in {"Home", "End"}
         THEN DeliverTime([Op("ContentKeyDown") EXCEPT !.key = key],
                          IF key = "Home" THEN 0 ELSE max, max, None, styleLeft)
         ELSE /\ lastOp' = [Op("ContentKeyDown") EXCEPT !.key = key]
              /\ calls' = NoCalls
              /\ UNCHANGED <<currentTime, styleLeft>>
    /\ UNCHANGED <<controlledTime, max, leftHandlePosition,
                   rightHandlePosition, step, minGap, constraints, drag>>

\* any descendant may call the onTimeChange it reads from useTimelineContext
ConsumerTimeChange ==
  \E time \in ConsumerTimes :
    /\ DeliverTime(Op("ConsumerTimeChange"), time, max, None, styleLeft)
    /\ UNCHANGED <<controlledTime, max, leftHandlePosition,
                   rightHandlePosition, step, minGap, constraints, drag>>

\* the parent of a controlled timeline renders it with a new currentTime prop
ParentSetsTime ==
  /\ controlledTime
  /\ \E time \in ConsumerTimes :
       /\ currentTime' = time
       /\ styleLeft' = SyncStyle(styleLeft, drag, currentTime, time,
                                 leftHandlePosition, rightHandlePosition)
  /\ calls' = NoCalls
  /\ lastOp' = Op("ParentSetsTime")
  /\ UNCHANGED <<controlledTime, max, leftHandlePosition, rightHandlePosition,
                 step, minGap, constraints, drag>>

\* registerTrack / unregisterTrack -> initializeBounds: max becomes the largest
\* layer end of the registered tracks, at least DEFAULT_TIMELINE_MAX
initializeBounds ==
  \E ends \in SUBSET LayerEnds :
    LET maxLayerEnd ==
          IF ends = {} THEN DEFAULT_TIMELINE_MAX
          ELSE Max2(DEFAULT_TIMELINE_MAX,
                    CHOOSE e \in ends : \A f \in ends : f <= e)
    IN /\ max' = maxLayerEnd
       /\ calls' = NoCalls
       /\ lastOp' = Op("initializeBounds")
       /\ UNCHANGED <<currentTime, controlledTime, leftHandlePosition,
                      rightHandlePosition, step, minGap, constraints, drag,
                      styleLeft>>

NextTime ==
  \/ PlayheadKeyDown
  \/ PlayheadMouseDown
  \/ PlayheadMouseMove
  \/ PlayheadAutoScrollChange
  \/ PlayheadMouseUp
  \/ ContentKeyDown
  \/ ConsumerTimeChange
  \/ ParentSetsTime
  \/ initializeBounds

(***************************************************************************)
(* Timeline.LeftHandle and Timeline.RightHandle                            *)
(***************************************************************************)
\* a handler of a handle stored `l` and `r`; onDrag received `dragged`
StoreHandles(name, l, r, dragged, style, dr) ==
  /\ leftHandlePosition' = l
  /\ rightHandlePosition' = r
  /\ drag' = dr
  /\ calls' = [NoCalls EXCEPT !.onDrag = dragged]
  /\ styleLeft' = SyncStyle(style, dr, currentTime, currentTime, l, r)
  /\ lastOp' = Op(name)
  /\ UNCHANGED <<currentTime, controlledTime, max, step, minGap, constraints>>

HandleMoveStep(shiftKey) ==
  LET fineStep == step \div 10
  IN IF shiftKey THEN fineStep ELSE step

LeftHandleKeyDown ==
  \E key \in Keys, shiftKey \in BOOLEAN, custom \in CustomOf("leftHandle") :
    IF key \in {"ArrowLeft", "ArrowRight", "Home"}
      THEN LET proposed ==
                 CASE key = "ArrowLeft" ->
                        leftHandlePosition - HandleMoveStep(shiftKey)
                   [] key = "ArrowRight" ->
                        leftHandlePosition + HandleMoveStep(shiftKey)
                   [] key = "Home" -> min
               constrained ==
                 applyLeftHandleConstraints(proposed, rightHandlePosition, custom)
           IN StoreHandles("LeftHandleKeyDown",
                           setLeftHandlePosition(constrained),
                           rightHandlePosition, Some(constrained), styleLeft,
                           drag)
      ELSE StoreHandles("LeftHandleKeyDown", leftHandlePosition,
                        rightHandlePosition, None, styleLeft, drag)

RightHandleKeyDown ==
  \E key \in Keys, shiftKey \in BOOLEAN, custom \in CustomOf("rightHandle") :
    IF key \in {"ArrowLeft", "ArrowRight", "End"}
      THEN LET proposed ==
                 CASE key = "ArrowLeft" ->
                        rightHandlePosition - HandleMoveStep(shiftKey)
                   [] key = "ArrowRight" ->
                        rightHandlePosition + HandleMoveStep(shiftKey)
                   [] key = "End" -> max
               constrained ==
                 applyRightHandleConstraints(proposed, leftHandlePosition, max,
                                             custom)
           IN StoreHandles("RightHandleKeyDown", leftHandlePosition,
                           constrained, Some(constrained), styleLeft, drag)
      ELSE StoreHandles("RightHandleKeyDown", leftHandlePosition,
                        rightHandlePosition, None, styleLeft, drag)

\* handleMouseDown installs onMouseMove / onMouseUp on the document; they keep
\* the applyLeftHandleConstraints of the render in which the drag started,
\* hence the rightHandlePosition of that render
LeftHandleMouseDown ==
  /\ drag.kind = "none"
  /\ StoreHandles("LeftHandleMouseDown", leftHandlePosition,
                  rightHandlePosition, None, styleLeft,
                  [NoDrag EXCEPT !.kind = "left", !.right = rightHandlePosition,
                                 !.max = max])

LeftHandleMouseMove ==
  /\ drag.kind = "left"
  /\ \E x \in MousePx, needsScroll \in BOOLEAN,
        custom \in CustomOf("leftHandle") :
       IF needsScroll
         THEN StoreHandles("LeftHandleMouseMove", leftHandlePosition,
                           rightHandlePosition, None, styleLeft, drag)
         ELSE LET newTime == pixelsToMs(x)
                  constrainedTime ==
                    applyLeftHandleConstraints(newTime, drag.right, custom)
                  constrainedPos == msToPixels(constrainedTime)
              IN StoreHandles("LeftHandleMouseMove",
                              setLeftHandlePosition(constrainedTime),
                              rightHandlePosition, Some(constrainedTime),
                              [styleLeft EXCEPT !.left = constrainedPos], drag)

LeftHandleAutoScrollChange ==
  /\ drag.kind = "left"
  /\ \E scrollDelta \in ScrollDeltas, shouldAllowAutoScroll \in BOOLEAN,
        custom \in CustomOf("leftHandle") :
       IF ~shouldAllowAutoScroll
         THEN StoreHandles("LeftHandleAutoScrollChange", leftHandlePosition,
                           rightHandlePosition, None, styleLeft, drag)
         ELSE LET currentPos == styleLeft.left
                  newPos == currentPos + scrollDelta
                  newTime == pixelsToMs(newPos)
                  constrainedTime ==
                    applyLeftHandleConstraints(newTime, drag.right, custom)
                  constrainedPos == msToPixels(constrainedTime)
              IN StoreHandles("LeftHandleAutoScrollChange",
                              setLeftHandlePosition(constrainedTime),
                              rightHandlePosition, Some(constrainedTime),
                              [styleLeft EXCEPT !.left = constrainedPos], drag)

LeftHandleMouseUp ==
  /\ drag.kind = "left"
  /\ StoreHandles("LeftHandleMouseUp", leftHandlePosition,
                  rightHandlePosition, None, styleLeft, NoDrag)

RightHandleMouseDown ==
  /\ drag.kind = "none"
  /\ StoreHandles("RightHandleMouseDown", leftHandlePosition,
                  rightHandlePosition, None, styleLeft,
                  [NoDrag EXCEPT !.kind = "right", !.left = leftHandlePosition,
                                 !.max = max])

RightHandleMouseMove ==
  /\ drag.kind = "right"
  /\ \E x \in MousePx, needsScroll \in BOOLEAN,
        custom \in CustomOf("rightHandle") :
       IF needsScroll
         THEN StoreHandles("RightHandleMouseMove", leftHandlePosition,
                           rightHandlePosition, None, styleLeft, drag)
         ELSE LET newTime == pixelsToMs(x)
                  constrainedTime ==
                    applyRightHandleConstraints(newTime, drag.left, drag.max,
                                                custom)
                  constrainedPos == msToPixels(constrainedTime)
              IN StoreHandles("RightHandleMouseMove", leftHandlePosition,
                              constrainedTime, Some(constrainedTime),
                              [styleLeft EXCEPT !.right = constrainedPos], drag)

RightHandleAutoScrollChange ==
  /\ drag.kind = "right"
  /\ \E scrollDelta \in ScrollDeltas, shouldAllowAutoScroll \in BOOLEAN,
        custom \in CustomOf("rightHandle") :
       IF ~shouldAllowAutoScroll
         THEN StoreHandles("RightHandleAutoScrollChange", leftHandlePosition,
                           rightHandlePosition, None, styleLeft, drag)
         ELSE LET currentPos == styleLeft.right
                  newPos == currentPos + scrollDelta
                  newTime == pixelsToMs(newPos)
                  constrainedTime ==
                    applyRightHandleConstraints(newTime, drag.left, drag.max,
                                                custom)
                  constrainedPos == msToPixels(constrainedTime)
              IN StoreHandles("RightHandleAutoScrollChange", leftHandlePosition,
                              constrainedTime, Some(constrainedTime),
                              [styleLeft EXCEPT !.right = constrainedPos], drag)

RightHandleMouseUp ==
  /\ drag.kind = "right"
  /\ StoreHandles("RightHandleMouseUp", leftHandlePosition,
                  rightHandlePosition, None, styleLeft, NoDrag)

NextTrim ==
  \/ LeftHandleKeyDown
  \/ RightHandleKeyDown
  \/ LeftHandleMouseDown
  \/ LeftHandleMouseMove
  \/ LeftHandleAutoScrollChange
  \/ LeftHandleMouseUp
  \/ RightHandleMouseDown
  \/ RightHandleMouseMove
  \/ RightHandleAutoScrollChange
  \/ RightHandleMouseUp

(***************************************************************************)
(* useControllableState (hooks/use-lazy-ref.ts)                            *)
(***************************************************************************)
MaxQueue == 2
MaxValue == 3
CsValues == 0..MaxValue

\* the updater setValue builds from its argument: a plain value replaces the
\* previous one, a function (here prev => prev + 1) is applied to it
updater(newValue, prev) ==
  IF newValue.isFunction THEN prev + 1 ELSE newValue.value

\* React applies the queued updaters in order to the committed state
RECURSIVE ApplyQueue(_, _)
ApplyQueue(queue, state) ==
  IF queue = <<>> THEN state
  ELSE ApplyQueue(Tail(queue), updater(Head(queue), state))

\* setValue that updates the internal state whether controlled or not
setValueQueueAlways(newValue) == Append(csQueue, newValue)

\* the queue after setValue: if (!isControlled) setInternalValue(updater)
setValueQueue(newValue) ==
  IF csControlled = None THEN Append(csQueue, newValue) ELSE csQueue

setValue ==
  /\ Len(csQueue) < MaxQueue
  /\ \E newValue \in [isFunction : {FALSE}, value : CsValues]
                     \cup {[isFunction |-> TRUE, value |-> 0]} :
       LET resolvedValue == updater(newValue, csValue)
       IN /\ resolvedValue \in CsValues
          /\ ApplyQueue(setValueQueue(newValue), csInternal) \in CsValues
          /\ csQueue' = setValueQueue(newValue)
          /\ csOnChange' = Some(resolvedValue)
          /\ csLast' = [op |-> "setValue", arg |-> newValue]
  /\ UNCHANGED <<csInternal, csControlled, csValue>>

\* a render of the component that uses the hook, with the `controlled` prop
\* its parent passes this time
Render ==
  \E controlled \in {None} \cup {Some(v) : v \in CsValues} :
    LET internalValue == ApplyQueue(csQueue, csInternal)
        isControlled == controlled # None
    IN /\ csInternal' = internalValue
       /\ csQueue' = <<>>
       /\ csControlled' = controlled
       /\ csValue' = IF isControlled THEN controlled[1] ELSE internalValue
       /\ csLast' = [op |-> "render", arg |-> csLast.arg]
       /\ UNCHANGED csOnChange

NextCtl == setValue \/ Render

(***************************************************************************)
(* useAutoScroll (timeline-hooks/use-auto-scroll.ts)                       *)
(***************************************************************************)
\* geometry of the scroll container, px
RectLeft == 10
ClientWidth == 8
ScrollWidth == 24
\* frames requestAnimationFrame hands out in one run
MaxRaf == 5

EdgeThresholds == {2, 3}
MaxScrollSpeeds == {2}
Accelerations == {1, 2}
ActivationMargins == {0, 3}
\* clientX of the pointer events
ClientXs ==
  {RectLeft - 5, RectLeft - 1, RectLeft + 1, RectLeft + 3,
   RectLeft + ClientWidth - 3, RectLeft + ClientWidth - 1,
   RectLeft + ClientWidth + 1, RectLeft + ClientWidth + 5}
\* what a consumer's onScrollChange does to the hook while it runs
CallbackBehaviours == {"none", "stop", "start", "stopStart"}

RECURSIVE Pow(_, _)
Pow(b, e) == IF e = 0 THEN 1 ELSE b * Pow(b, e - 1)

\* scroll positions and speeds are multiples of 1 / SpeedDen px:
\* Math.pow(1 - d / edgeThreshold, acceleration) = (T - d)^a / T^a
SpeedDen == Pow(scrollCfg.edgeThreshold, scrollCfg.acceleration)
maxScrollLeft == (ScrollWidth - ClientWidth) * SpeedDen

\* calculateScrollSpeed, in 1 / SpeedDen px per frame
calculateScrollSpeed(distanceFromEdge) ==
  IF distanceFromEdge >= scrollCfg.edgeThreshold THEN 0
  ELSE Pow(scrollCfg.edgeThreshold - distanceFromEdge, scrollCfg.acceleration)
         * scrollCfg.maxScrollSpeed

\* loop with the edge zone measured against twice the threshold
loopVelocityWideEdge(rawMouseX) ==
  LET distanceFromLeft == rawMouseX - RectLeft
      distanceFromRight == (RectLeft + ClientWidth) - rawMouseX
  IN IF distanceFromLeft < 2 * scrollCfg.edgeThreshold
       THEN 0 - scrollCfg.maxScrollSpeed * SpeedDen
       ELSE IF distanceFromRight < 2 * scrollCfg.edgeThreshold
              THEN scrollCfg.maxScrollSpeed * SpeedDen
              ELSE 0

\* loop, lines 61-81: scrollDirection * speed for the stored pointer event
loopVelocity(rawMouseX) ==
  LET minX == RectLeft - scrollCfg.activationMargin
      maxX == (RectLeft + ClientWidth) + scrollCfg.activationMargin
      mouseX == Max2(minX, Min2(rawMouseX, maxX))
      distanceFromLeft == mouseX - RectLeft
      distanceFromRight == (RectLeft + ClientWidth) - mouseX
  IN IF distanceFromLeft < scrollCfg.edgeThreshold
       THEN (0 - 1) * calculateScrollSpeed(distanceFromLeft)
       ELSE IF distanceFromRight < scrollCfg.edgeThreshold
              THEN 1 * calculateScrollSpeed(distanceFromRight)
              ELSE 0

\* loop notifying on every frame that computed a speed
shouldNotifyAlways(scrollDelta, callback) == callback # Null

\* loop, line 95: if (scrollDelta !== 0 && onScrollChangeRef.current)
shouldNotify(scrollDelta, callback) == scrollDelta # 0 /\ callback # Null

\* the refs of the hook and the browser's frame queue, as one record
Hook ==
  [isInitializedRef |-> isInitializedRef, rafIdRef |-> rafIdRef,
   lastMouseEventRef |-> lastMouseEventRef, containerRef |-> containerRef,
   onScrollChangeRef |-> onScrollChangeRef, rafPending |-> rafPending,
   rafNext |-> rafNext, stopped |-> stopped]

SetHook(h) ==
  /\ isInitializedRef' = h.isInitializedRef
  /\ rafIdRef' = h.rafIdRef
  /\ lastMouseEventRef' = h.lastMouseEventRef
  /\ containerRef' = h.containerRef
  /\ onScrollChangeRef' = h.onScrollChangeRef
  /\ rafPending' = h.rafPending
  /\ rafNext' = h.rafNext
  /\ stopped' = h.stopped

\* rafIdRef.current = requestAnimationFrame(loop); a null rafIdRef is 0
requestAnimationFrame(h) ==
  [h EXCEPT !.rafPending = @ \cup {h.rafNext}, !.rafIdRef = h.rafNext,
            !.rafNext = @ + 1]

startOn(h, container, onScrollChange) ==
  IF ~h.isInitializedRef /\ container # Null
    THEN requestAnimationFrame(
           [h EXCEPT !.containerRef = container, !.isInitializedRef = TRUE,
                     !.onScrollChangeRef = onScrollChange, !.stopped = FALSE])
    ELSE [h EXCEPT !.stopped = FALSE]

\* stopAutoScroll that forgets the stored pointer event and the frame
stopOnKeepingEvent(h) ==
  [h EXCEPT !.isInitializedRef = FALSE, !.containerRef = Null,
            !.onScrollChangeRef = Null, !.stopped = TRUE]

stopOn(h) ==
  [h EXCEPT !.isInitializedRef = FALSE, !.containerRef = Null,
            !.onScrollChangeRef = Null, !.lastMouseEventRef = None,
            !.rafPending = IF h.rafIdRef # 0 THEN @ \ {h.rafIdRef} ELSE @,
            !.rafIdRef = 0, !.stopped = TRUE]

NoFrame(name) ==
  [op |-> name, ran |-> FALSE, x |-> None, old |-> scrollLeft,
   new |-> scrollLeft, called |-> None, callback |-> Null, cancelled |-> 0]

startAutoScroll ==
  /\ rafNext <= MaxRaf
  /\ \E container \in {Null, "div"}, onScrollChange \in {Null, "callback"} :
       SetHook(startOn(Hook, container, onScrollChange))
  /\ frame' = NoFrame("startAutoScroll")
  /\ UNCHANGED <<scrollLeft, scrollCfg>>

stopAutoScroll ==
  /\ SetHook(stopOn(Hook))
  /\ frame' = [NoFrame("stopAutoScroll") EXCEPT !.cancelled = rafIdRef]
  /\ UNCHANGED <<scrollLeft, scrollCfg>>

handleAutoScroll ==
  /\ \E clientX \in ClientXs :
       SetHook([Hook EXCEPT !.lastMouseEventRef = Some(clientX)])
  /\ frame' = NoFrame("handleAutoScroll")
  /\ UNCHANGED <<scrollLeft, scrollCfg>>

\* what the onScrollChange callback does to the hook before it returns
callbackEffect(h, behaviour) ==
  CASE behaviour = "none" -> h
    [] behaviour = "stop" -> stopOn(h)
    [] behaviour = "start" -> startOn(h, "div", "callback")
    [] behaviour = "stopStart" -> startOn(stopOn(h), "div", "callback")

\* the browser runs one requested frame: loop()
loop ==
  /\ rafNext < MaxRaf
  /\ \E id \in rafPending, behaviour \in CallbackBehaviours :
       LET fired == [Hook EXCEPT !.rafPending = @ \ {id}]
       IN IF ~isInitializedRef
            THEN /\ SetHook(fired)
                 /\ frame' = NoFrame("loop")
                 /\ UNCHANGED scrollLeft
            ELSE LET scrolls == containerRef # Null /\ lastMouseEventRef # None
                     velocity == IF scrolls
                                   THEN loopVelocity(lastMouseEventRef[1]) ELSE 0
                     oldScrollLeft == scrollLeft
                     newScrollLeft == scrollLeft + velocity
                     clampedScrollLeft ==
                       IF velocity # 0
                         THEN Max2(0, Min2(newScrollLeft, maxScrollLeft))
                         ELSE oldScrollLeft
                     scrollDelta == clampedScrollLeft - oldScrollLeft
                     notifies == /\ velocity # 0
                                 /\ shouldNotify(scrollDelta, onScrollChangeRef)
                     after == IF notifies THEN callbackEffect(fired, behaviour)
                              ELSE fired
                 IN /\ notifies \/ behaviour = "none"
                    /\ scrollLeft' = clampedScrollLeft
                    /\ SetHook(requestAnimationFrame(after))
                    /\ frame' = [op |-> "loop", ran |-> TRUE,
                                 x |-> lastMouseEventRef, old |-> oldScrollLeft,
                                 new |-> clampedScrollLeft,
                                 called |-> IF notifies THEN Some(scrollDelta)
                                            ELSE None,
                                 callback |-> onScrollChangeRef, cancelled |-> 0]
  /\ UNCHANGED scrollCfg

NextScroll == startAutoScroll \/ stopAutoScroll \/ handleAutoScroll \/ loop

(***************************************************************************)
(* useScale (timeline-hooks/use-scale.ts)                                  *)
(***************************************************************************)
\* a scale is the fraction <<px, ms>>; two fractions with positive
\* denominators are equal when their cross products are
FracEq(a, b) == a[1] * b[2] = b[1] * a[2]

FixedPxPerSecondChoices == {50, 100}
MinPxPerSecondChoices == {None, Some(20), Some(60)}
MaxPxPerSecondChoices == {None, Some(0), Some(80)}
ClientWidthChoices == {0, 300, 1000}
DurationChoices == {0, 10000, 20000}

ContainerConfig ==
  [type |-> "container", fixedPxPerSecond |-> 0, minPxPerSecond |-> None,
   maxPxPerSecond |-> None]
ScaleConfigs ==
  {[ContainerConfig EXCEPT !.type = "fixed", !.fixedPxPerSecond = f] :
     f \in FixedPxPerSecondChoices}
  \cup {ContainerConfig}
  \cup {[type |-> "auto", fixedPxPerSecond |-> f, minPxPerSecond |-> lo,
         maxPxPerSecond |-> hi] :
          f \in {50}, lo \in MinPxPerSecondChoices,
          hi \in MaxPxPerSecondChoices}
Elements == {None} \cup {Some(w) : w \in ClientWidthChoices}

\* a fixed scale that takes fixedPxPerSecond for pixels per millisecond
fixedPxPerMsUnscaled(config) == <<config.fixedPxPerSecond, 1>>

\* fixedPxPerMs = fixedPxPerSecond / 1000
fixedPxPerMs(config) == <<config.fixedPxPerSecond, 1000>>

\* a container scale that spreads the width over one second
containerPxPerMsOverSecond(width, duration) ==
  IF duration > 0 /\ width > 0 THEN <<width, 1000>> ELSE <<0, 1>>

\* containerPxPerMs = durationMs > 0 && width > 0 ? width / durationMs : 0
containerPxPerMs(width, duration) ==
  IF duration > 0 /\ width > 0 THEN <<width, duration>> ELSE <<0, 1>>

\* a recalc whose auto branch always takes the container scale
recalcPxPerMsNoFallback(config, element, duration, current) ==
  IF config.type = "fixed" THEN fixedPxPerMs(config)
  ELSE IF element = None THEN current
  ELSE containerPxPerMs(element[1], duration)

\* isContainerTooSmall = containerPxPerSecond < minPxPerSecond, with
\* minPxPerSecond = config.minPxPerSecond ?? config.fixedPxPerSecond
isContainerTooSmall(config, containerPxPerSecond) ==
  LET minPxPerSecond ==
        IF config.minPxPerSecond # None THEN config.minPxPerSecond[1]
        ELSE config.fixedPxPerSecond
  IN containerPxPerSecond[1] < minPxPerSecond * containerPxPerSecond[2]

\* isContainerTooLarge =
\*   config.maxPxPerSecond && containerPxPerSecond > config.maxPxPerSecond
isContainerTooLarge(config, containerPxPerSecond) ==
  /\ config.maxPxPerSecond # None
  /\ config.maxPxPerSecond[1] # 0
  /\ containerPxPerSecond[1]
       > config.maxPxPerSecond[1] * containerPxPerSecond[2]

\* the value recalc leaves in pxPerMsRef.current, given the config in
\* configRef, containerRef.current and the durationMs it closes over
recalcPxPerMs(config, element, duration, current) ==
  IF config.type = "fixed" THEN fixedPxPerMs(config)
  ELSE IF element = None THEN current
  ELSE LET container == containerPxPerMs(element[1], duration)
           \* containerPxPerSecond = containerPxPerMs * 1000
           containerPxPerSecond == <<container[1] * 1000, container[2]>>
       IN IF config.type = "container" THEN container
          ELSE IF \/ isContainerTooSmall(config, containerPxPerSecond)
                  \/ isContainerTooLarge(config, containerPxPerSecond)
                 THEN fixedPxPerMs(config) ELSE container

\* the value recalc leaves in currentScalingTypeRef.current
recalcScalingType(config, element, current) ==
  IF config.type = "fixed" THEN "fixed"
  ELSE IF element = None THEN current
  ELSE config.type

\* an effect that registers the listener for every type
effectListenerAlways(config) == TRUE

\* the effect adds recalc as a "resize" listener for these types only
effectListener(config) == config.type \in {"container", "auto"}

ScaleOp(name, runs) == [op |-> name, recalcRuns |-> runs]

\* one call of the recalc that closes over `duration`, with `config` in
\* configRef
recalc(caller, config, duration) ==
  /\ pxPerMs' = recalcPxPerMs(config, el, duration, pxPerMs)
  /\ currentScalingTypeRef' =
       recalcScalingType(config, el, currentScalingTypeRef)
  /\ recalcLog' = [op |-> caller, config |-> config, element |-> el,
                   duration |-> duration]

\* first render and the effect that follows it
Mount ==
  /\ mounted = "no"
  /\ \E config \in ScaleConfigs, duration \in DurationChoices :
       /\ scaleConfig' = config
       /\ durationMs' = duration
       /\ returnedScalingType' = currentScalingTypeRef
       /\ recalc("effect", config, duration)
       /\ resizeListener' = effectListener(config)
  /\ mounted' = "yes"
  /\ scaleOp' = ScaleOp("Mount", 1)
  /\ UNCHANGED el

\* a later render with the props of the moment; the effect runs again, after
\* its cleanup, when recalc (durationMs) or config.type changed
Rerender ==
  /\ mounted = "yes"
  /\ \E config \in ScaleConfigs, duration \in DurationChoices :
       /\ scaleConfig' = config
       /\ durationMs' = duration
       /\ returnedScalingType' = currentScalingTypeRef
       /\ IF duration # durationMs \/ config.type # scaleConfig.type
            THEN /\ recalc("effect", config, duration)
                 /\ resizeListener' = effectListener(config)
                 /\ scaleOp' = ScaleOp("Rerender", 1)
            ELSE /\ UNCHANGED <<pxPerMs, currentScalingTypeRef, recalcLog,
                                resizeListener>>
                 /\ scaleOp' = ScaleOp("Rerender", 0)
  /\ UNCHANGED <<mounted, el>>

\* a window "resize" event: it runs recalc when recalc is a listener
WindowResize ==
  /\ IF resizeListener
       THEN /\ recalc("resize", scaleConfig, durationMs)
            /\ scaleOp' = ScaleOp("WindowResize", 1)
       ELSE /\ UNCHANGED <<pxPerMs, currentScalingTypeRef, recalcLog>>
            /\ scaleOp' = ScaleOp("WindowResize", 0)
  /\ UNCHANGED <<mounted, scaleConfig, durationMs, el, returnedScalingType,
                 resizeListener>>

\* the owner of the hook calls the recalc it was returned
CallRecalc ==
  /\ mounted = "yes"
  /\ recalc("call", scaleConfig, durationMs)
  /\ scaleOp' = ScaleOp("CallRecalc", 1)
  /\ UNCHANGED <<mounted, scaleConfig, durationMs, el, returnedScalingType,
                 resizeListener>>

\* the effect's cleanup on unmount
Unmount ==
  /\ mounted = "yes"
  /\ mounted' = "unmounted"
  /\ resizeListener' = FALSE
  /\ scaleOp' = ScaleOp("Unmount", 0)
  /\ UNCHANGED <<scaleConfig, durationMs, el, pxPerMs, currentScalingTypeRef,
                 returnedScalingType, recalcLog>>

\* the container element is attached, detached or resized
SetElement ==
  /\ \E element \in Elements : el' = element
  /\ scaleOp' = ScaleOp("SetElement", 0)
  /\ UNCHANGED <<mounted, scaleConfig, durationMs, pxPerMs,
                 currentScalingTypeRef, returnedScalingType, resizeListener,
                 recalcLog>>

NextScale ==
  \/ Mount
  \/ Rerender
  \/ WindowResize
  \/ CallRecalc
  \/ Unmount
  \/ SetElement

(***************************************************************************)
(* Timeline.Reorder (timeline-hooks/use-auto-scroll.ts)                    *)
(***************************************************************************)
TrackIds == <<"A", "B", "C">>
Strategies == {"closest", "center", "edge"}
\* pointer y relative to the top of the reorder container
PointerYs == {-30, 4, 15, 26}
\* the drags that may be in progress at once (one per mouse button held)
MaxDragListeners == 2

\* trackPositions: the tracks are stacked, each TrackHeight px high
TrackHeight == 10
TrackY(i) == (i - 1) * TrackHeight

IdleDragState ==
  [draggedTrackId |-> Null, dragOverTrackId |-> Null, isDragging |-> FALSE,
   overlayPosition |-> [x |-> 0, y |-> 0]]

NoReorder == [op |-> "init", trackId |-> Null, over |-> Null,
              order |-> TrackIds, listeners |-> 0, onReorder |-> <<>>]

\* Array.prototype.indexOf, 0-based, -1 when absent
indexOf(seq, x) ==
  IF \E i \in 1..Len(seq) : seq[i] = x
    THEN (CHOOSE i \in 1..Len(seq) :
            seq[i] = x /\ \A j \in 1..(i - 1) : seq[j] # x) - 1
    ELSE -1

\* the start index of a splice: a negative start counts from the end
spliceStart(seq, start) ==
  IF start < 0 THEN Max2(Len(seq) + start, 0) ELSE Min2(start, Len(seq))

\* seq.splice(start, 1)
spliceRemove(seq, start) ==
  LET k == spliceStart(seq, start)
  IN SubSeq(seq, 1, k) \o SubSeq(seq, k + 2, Len(seq))

\* seq.splice(start, 0, x)
spliceInsert(seq, start, x) ==
  LET k == spliceStart(seq, start)
  IN SubSeq(seq, 1, k) \o <<x>> \o SubSeq(seq, k + 1, Len(seq))

\* the setOrderedTrackIds updater of onMouseUp
reorderedIds(prev, trackId, over) ==
  spliceInsert(spliceRemove(prev, indexOf(prev, trackId)),
               indexOf(prev, over), trackId)

\* findTrackAtPosition over the tracks in insertion order
RECURSIVE findTrack(_, _, _, _, _)
findTrack(strat, y, i, closestTrack, closestDistance) ==
  IF i > Len(TrackIds) THEN closestTrack
  ELSE LET \* twice the distance to the centre, to stay in the integers
           distance == Abs(2 * y - (2 * TrackY(i) + TrackHeight))
       IN IF strat = "closest" /\ (closestDistance < 0 \/ distance < closestDistance)
            THEN findTrack(strat, y, i + 1, TrackIds[i], distance)
          ELSE IF strat = "center" /\ y >= TrackY(i) /\ y <= TrackY(i) + TrackHeight
            THEN TrackIds[i]
          ELSE IF strat = "edge" /\ Abs(y - TrackY(i)) < 20
            THEN TrackIds[i]
          ELSE findTrack(strat, y, i + 1, closestTrack, closestDistance)

\* closestDistance = Infinity is a negative distance here
findTrackAtPosition(y) == findTrack(strategy, y, 1, Null, -1)

\* mousedown on a track's drag handle; the listeners it adds close over the
\* dragState of the render that created this handleTrackDragStart
handleTrackDragStart ==
  /\ Len(dragListeners) < MaxDragListeners
  /\ \E i \in 1..Len(TrackIds), y \in PointerYs :
       LET trackId == TrackIds[i]
       IN IF disabled
            THEN /\ UNCHANGED <<dragState, dragListeners>>
                 /\ reorderLog' = [NoReorder EXCEPT !.op = "disabled",
                                                    !.trackId = trackId,
                                                    !.order = orderedTrackIds]
            ELSE /\ dragState' = [draggedTrackId |-> trackId,
                                  dragOverTrackId |-> Null,
                                  isDragging |-> TRUE,
                                  overlayPosition |-> [x |-> 0, y |-> y]]
                 /\ dragListeners' =
                      Append(dragListeners,
                             [trackId |-> trackId, dragState |-> dragState])
                 /\ reorderLog' = [NoReorder EXCEPT
                                     !.op = "handleTrackDragStart",
                                     !.trackId = trackId,
                                     !.order = orderedTrackIds,
                                     !.listeners = Len(dragListeners) + 1]
  /\ UNCHANGED <<orderedTrackIds, strategy, disabled>>

\* the functional setDragState updates of the mousemove listeners, in the
\* order the listeners were added
RECURSIVE moveListeners(_, _, _, _)
moveListeners(listeners, i, state, y) ==
  IF i > Len(listeners) THEN state
  ELSE LET targetTrackId == findTrackAtPosition(y)
           next == [state EXCEPT
                      !.overlayPosition = [x |-> 0, y |-> y],
                      !.dragOverTrackId =
                        IF targetTrackId # listeners[i].trackId
                          THEN targetTrackId ELSE Null]
       IN moveListeners(listeners, i + 1, next, y)

\* document mousemove during a drag
onMouseMove ==
  /\ Len(dragListeners) > 0
  /\ \E y \in PointerYs :
       dragState' = moveListeners(dragListeners, 1, dragState, y)
  /\ reorderLog' = [NoReorder EXCEPT !.op = "onMouseMove",
                                     !.trackId = dragListeners[1].trackId,
                                     !.order = orderedTrackIds,
                                     !.listeners = Len(dragListeners)]
  /\ UNCHANGED <<orderedTrackIds, dragListeners, strategy, disabled>>

\* the drag state onMouseUp reads to decide the drop: the dragState its
\* handleTrackDragStart closed over
dropState(listener, state) == listener.dragState

\* the mouseup listeners in the order they were added: each resets the drag
\* state and reorders when its currentDragState is over another track
RECURSIVE upListeners(_, _, _, _, _)
upListeners(listeners, i, state, order, called) ==
  IF i > Len(listeners) THEN [order |-> order, called |-> called]
  ELSE LET trackId == listeners[i].trackId
           currentDragState == dropState(listeners[i], state)
           over == currentDragState.dragOverTrackId
       IN IF over # Null /\ over # trackId
            THEN LET newOrder == reorderedIds(order, trackId, over)
                 IN upListeners(listeners, i + 1, state, newOrder,
                                Append(called,
                                       [reorderedIds |-> newOrder,
                                        movedId |-> trackId,
                                        fromIndex |-> indexOf(order, trackId),
                                        toIndex |-> indexOf(order, over)]))
            ELSE upListeners(listeners, i + 1, state, order, called)

\* document mouseup: every listener runs and removes itself
onMouseUp ==
  /\ Len(dragListeners) > 0
  /\ LET result == upListeners(dragListeners, 1, dragState, orderedTrackIds,
                               <<>>)
     IN /\ orderedTrackIds' = result.order
        /\ reorderLog' = [op |-> "onMouseUp",
                          trackId |-> dragListeners[1].trackId,
                          over |-> dragState.dragOverTrackId,
                          order |-> orderedTrackIds,
                          listeners |-> Len(dragListeners),
                          onReorder |-> result.called]
  /\ dragState' = IdleDragState
  /\ dragListeners' = <<>>
  /\ UNCHANGED <<strategy, disabled>>

NextReorder ==
  \/ handleTrackDragStart
  \/ onMouseMove
  \/ onMouseUp

(***************************************************************************)
(* Specifications                                                          *)
(***************************************************************************)
InitCtlIdle ==
  /\ csInternal = 0
  /\ csQueue = <<>>
  /\ csControlled = None
  /\ csValue = 0
  /\ csOnChange = None
  /\ csLast = [op |-> "init", arg |-> [isFunction |-> FALSE, value |-> 0]]

InitScrollIdle ==
  /\ isInitializedRef = FALSE
  /\ rafIdRef = 0
  /\ lastMouseEventRef = None
  /\ containerRef = Null
  /\ onScrollChangeRef = Null
  /\ scrollLeft = 0
  /\ rafPending = {}
  /\ rafNext = 1
  /\ scrollCfg = [edgeThreshold |-> 80, maxScrollSpeed |-> 25,
                  acceleration |-> 1, activationMargin |-> 50]
  /\ frame = [op |-> "init", ran |-> FALSE, x |-> None, old |-> 0, new |-> 0,
              called |-> None, callback |-> Null, cancelled |-> 0]
  /\ stopped = FALSE

InitScaleIdle ==
  /\ mounted = "no"
  /\ scaleConfig = ContainerConfig
  /\ durationMs = DEFAULT_TIMELINE_MAX
  /\ el = None
  /\ pxPerMs = <<0, 1>>
  /\ currentScalingTypeRef = "container"
  /\ returnedScalingType = "container"
  /\ resizeListener = FALSE
  /\ recalcLog = [op |-> "init", config |-> ContainerConfig, element |-> None,
                  duration |-> 0]
  /\ scaleOp = ScaleOp("init", 0)

InitReorderIdle ==
  /\ orderedTrackIds = TrackIds
  /\ dragState = IdleDragState
  /\ dragListeners = <<>>
  /\ strategy = "closest"
  /\ disabled = FALSE
  /\ reorderLog = NoReorder

\* the trim handles under keyboard and mouse
InitTrim ==
  /\ InitTimeline(TrimStepChoices, {FALSE}, MinGapChoices,
                  {[playhead |-> FALSE, leftHandle |-> l, rightHandle |-> r] :
                     l \in BOOLEAN, r \in BOOLEAN})
  /\ InitCtlIdle /\ InitScrollIdle /\ InitScaleIdle /\ InitReorderIdle
SpecTrim ==
  InitTrim /\ [][NextTrim /\ UNCHANGED <<ctlVars, scrollVars, scaleVars, reorderVars>>]_vars

\* currentTime under the playhead, Timeline.Content and context consumers
InitTime ==
  /\ InitTimeline(StepChoices, BOOLEAN, {1000},
                  {[playhead |-> p, leftHandle |-> FALSE, rightHandle |-> FALSE] :
                     p \in BOOLEAN})
  /\ InitCtlIdle /\ InitScrollIdle /\ InitScaleIdle /\ InitReorderIdle
SpecTime ==
  InitTime /\ [][NextTime /\ UNCHANGED <<ctlVars, scrollVars, scaleVars, reorderVars>>]_vars

\* useControllableState on its own: first render with any defaultValue and
\* any `controlled` prop
InitCtl ==
  /\ \E defaultValue \in CsValues, controlled \in {None} \cup {Some(v) : v \in CsValues} :
       /\ csInternal = defaultValue
       /\ csControlled = controlled
       /\ csValue = IF controlled # None THEN controlled[1] ELSE defaultValue
       /\ csLast = [op |-> "init",
                    arg |-> [isFunction |-> FALSE, value |-> defaultValue]]
  /\ csQueue = <<>>
  /\ csOnChange = None
  /\ InitTimelineIdle /\ InitScrollIdle /\ InitScaleIdle /\ InitReorderIdle
SpecCtl ==
  InitCtl /\ [][NextCtl /\ UNCHANGED <<timelineVars, scrollVars, scaleVars, reorderVars>>]_vars

\* useAutoScroll on its own: any options, the container scrolled to either end
InitScroll ==
  /\ isInitializedRef = FALSE
  /\ rafIdRef = 0
  /\ lastMouseEventRef = None
  /\ containerRef = Null
  /\ onScrollChangeRef = Null
  /\ scrollCfg \in [edgeThreshold : EdgeThresholds,
                     maxScrollSpeed : MaxScrollSpeeds,
                     acceleration : Accelerations,
                     activationMargin : ActivationMargins]
  /\ scrollLeft \in {0, maxScrollLeft}
  /\ rafPending = {}
  /\ rafNext = 1
  /\ frame = [op |-> "init", ran |-> FALSE, x |-> None, old |-> scrollLeft,
              new |-> scrollLeft, called |-> None, callback |-> Null,
              cancelled |-> 0]
  /\ stopped = FALSE
  /\ InitTimelineIdle /\ InitCtlIdle /\ InitScaleIdle /\ InitReorderIdle
SpecScroll ==
  InitScroll /\ [][NextScroll /\ UNCHANGED <<timelineVars, ctlVars, scaleVars, reorderVars>>]_vars

\* useScale on its own, from before its first render
InitScale ==
  /\ mounted = "no"
  /\ scaleConfig = ContainerConfig
  /\ durationMs = DEFAULT_TIMELINE_MAX
  /\ el \in Elements
  /\ pxPerMs = <<0, 1>>
  /\ currentScalingTypeRef = "container"
  /\ returnedScalingType = "container"
  /\ resizeListener = FALSE
  /\ recalcLog = [op |-> "init", config |-> ContainerConfig, element |-> None,
                  duration |-> 0]
  /\ scaleOp = ScaleOp("init", 0)
  /\ InitTimelineIdle /\ InitCtlIdle /\ InitScrollIdle /\ InitReorderIdle
SpecScale ==
  InitScale /\ [][NextScale /\ UNCHANGED <<timelineVars, ctlVars, scrollVars, reorderVars>>]_vars

\* the playhead and both handles, each with a custom constraint function
InitConstrained ==
  /\ InitTimeline(TrimStepChoices, {FALSE}, {2500},
                  {[playhead |-> TRUE, leftHandle |-> TRUE, rightHandle |-> TRUE]})
  /\ InitCtlIdle /\ InitScrollIdle /\ InitScaleIdle /\ InitReorderIdle
NextConstrained ==
  \/ NextTrim
  \/ PlayheadKeyDown
  \/ PlayheadMouseDown
  \/ PlayheadMouseMove
  \/ PlayheadAutoScrollChange
  \/ PlayheadMouseUp
SpecConstrained ==
  InitConstrained /\ [][NextConstrained /\ UNCHANGED <<ctlVars, scrollVars, scaleVars, reorderVars>>]_vars

\* Timeline.Reorder under track drags
InitReorder ==
  /\ orderedTrackIds = TrackIds
  /\ dragState = IdleDragState
  /\ dragListeners = <<>>
  /\ strategy \in Strategies
  /\ disabled \in BOOLEAN
  /\ reorderLog = NoReorder
  /\ InitTimelineIdle /\ InitCtlIdle /\ InitScrollIdle /\ InitScaleIdle
SpecReorder ==
  InitReorder /\ [][NextReorder /\ UNCHANGED <<timelineVars, ctlVars, scrollVars, scaleVars>>]_vars

(***************************************************************************)
(* Properties                                                              *)
(***************************************************************************)
\* C1: in every reachable state of the trim handles,
\* min <= leftHandlePosition, leftHandlePosition + minGap <= rightHandlePosition
\* and rightHandlePosition <= max.
TrimGapInvariant ==
  /\ min <= leftHandlePosition
  /\ leftHandlePosition + minGap <= rightHandlePosition
  /\ rightHandlePosition <= max

PlayheadKeyStepping ==
  [][lastOp'.op = "PlayheadKeyDown" =>
       LET key == lastOp'.key
           moveStep == IF lastOp'.shiftKey THEN step \div 10 ELSE step
       IN IF key \in {"ArrowLeft", "ArrowRight", "Home", "End"}
            THEN ~constraints.playhead =>
                   LET proposal ==
                         IF key = "ArrowLeft" THEN currentTime - moveStep
                         ELSE IF key = "ArrowRight" THEN currentTime + moveStep
                         ELSE IF key = "Home" THEN min ELSE max
                       expected ==
                         IF proposal < min THEN min
                         ELSE IF proposal > max THEN max ELSE proposal
                   IN /\ calls'.onMove = Some(expected)
                      /\ calls'.onTimeChange = Some(expected)
            ELSE /\ currentTime' = currentTime
                 /\ calls' = NoCalls]_vars

\* C3 witness: Shift+ArrowLeft moved an unconstrained playhead by step / 10
PlayheadKeySteppingWitness ==
  /\ lastOp.op = "PlayheadKeyDown"
  /\ lastOp.key = "ArrowLeft"
  /\ lastOp.shiftKey
  /\ ~constraints.playhead
  /\ ~controlledTime
  /\ 10 * (DEFAULT_TIMELINE_MAX - currentTime) = step
  /\ calls.onMove = Some(currentTime)

MaxScrollSpeedBound ==
  frame.op = "loop" =>
    /\ Abs(frame.new - frame.old) <= scrollCfg.maxScrollSpeed * SpeedDen
    /\ frame.called # None =>
         Abs(frame.called[1]) <= scrollCfg.maxScrollSpeed * SpeedDen

\* C6: a loop frame whose stored pointer x is at least edgeThreshold from both
\* edges of the container leaves scrollLeft unchanged and does not call
\* onScrollChange (so a frame scrolls only with the pointer closer than
\* edgeThreshold to the left or to the right edge).
EdgeThresholdGate ==
  frame.op = "loop" /\ frame.x # None
    /\ frame.x[1] - RectLeft >= scrollCfg.edgeThreshold
    /\ (RectLeft + ClientWidth) - frame.x[1] >= scrollCfg.edgeThreshold
  => /\ frame.new = frame.old
     /\ scrollLeft = frame.old
     /\ frame.called = None

\* C6 witness: a running loop with a callback and room to scroll both ways
\* ran a frame with the pointer in the middle of the container
EdgeThresholdWitness ==
  /\ frame.op = "loop" /\ frame.ran
  /\ frame.callback # Null
  /\ frame.x # None
  /\ frame.x[1] - RectLeft >= scrollCfg.edgeThreshold
  /\ (RectLeft + ClientWidth) - frame.x[1] >= scrollCfg.edgeThreshold
  /\ scrollLeft > 0 /\ scrollLeft < maxScrollLeft

\* C7: stopAutoScroll clears the container, the callback, the pointer event
\* and the frame id and cancels the pending frame; from then until the next
\* startAutoScroll no step scrolls or calls onScrollChange; and, started
\* again, nothing scrolls while no pointer event is stored.
StopStopsScrolling ==
  /\ [](frame.op = "stopAutoScroll" =>
          /\ ~isInitializedRef
          /\ containerRef = Null
          /\ onScrollChangeRef = Null
          /\ lastMouseEventRef = None
          /\ rafIdRef = 0
          /\ frame.cancelled \notin rafPending)
  /\ [][stopped => scrollLeft' = scrollLeft /\ frame'.called = None]_vars
  /\ [][lastMouseEventRef = None =>
          scrollLeft' = scrollLeft /\ frame'.called = None]_vars

\* C7 witness: stopAutoScroll cancelled the frame of a loop that had scrolled
StopStopsScrollingWitness ==
  /\ frame.op = "stopAutoScroll"
  /\ frame.cancelled # 0
  /\ stopped
  /\ scrollLeft > 0 /\ scrollLeft < maxScrollLeft

\* C8: a loop frame calls the registered onScrollChange if and only if the
\* clamped scroll position differs from the position before the frame, with
\* delta = new - old; the position stays within [0, scrollWidth - clientWidth].
ScrollChangeNotification ==
  frame.op = "loop" =>
    /\ scrollLeft = frame.new
    /\ 0 <= frame.new /\ frame.new <= maxScrollLeft
    /\ frame.callback = Null => frame.called = None
    /\ frame.callback # Null =>
         /\ frame.called # None <=> frame.new # frame.old
         /\ frame.called # None => frame.called[1] = frame.new - frame.old

\* C8 witness: scrolling left at position 0 did not call the callback
ScrollChangeWitness ==
  /\ frame.op = "loop" /\ frame.ran
  /\ frame.callback # Null
  /\ frame.x # None
  /\ frame.x[1] - RectLeft < scrollCfg.edgeThreshold
  /\ frame.old = 0
  /\ frame.called = None

\* C9: with a config of type "fixed" every recalc leaves the scale at
\* fixedPxPerSecond / 1000 px per ms, whatever the container (present or not,
\* any width) and whatever durationMs.
FixedScaleIsFixed ==
  recalcLog.op # "init" /\ recalcLog.config.type = "fixed" =>
    /\ pxPerMs[2] > 0
    /\ pxPerMs[1] * 1000 = recalcLog.config.fixedPxPerSecond * pxPerMs[2]
    /\ currentScalingTypeRef = "fixed"

\* C9 witness: a fixed recalc ran without a container element and with a
\* duration of 0
FixedScaleWitness ==
  /\ recalcLog.op # "init"
  /\ recalcLog.config.type = "fixed"
  /\ recalcLog.element = None
  /\ recalcLog.duration = 0
  /\ pxPerMs[1] # 0

\* C10: with a config of type "container", a container of clientWidth w > 0
\* and durationMs d > 0, recalc leaves pxPerMs with d * pxPerMs = w.
ContainerScaleFitsWidth ==
  /\ recalcLog.op # "init"
  /\ recalcLog.config.type = "container"
  /\ recalcLog.element # None
  /\ recalcLog.element[1] > 0
  /\ recalcLog.duration > 0
  => /\ pxPerMs[2] > 0
     /\ recalcLog.duration * pxPerMs[1] = recalcLog.element[1] * pxPerMs[2]

\* C10 witness: a resize recalculated a container scale for a width that is
\* not the one the scale was first computed for
ContainerScaleWitness ==
  /\ recalcLog.op = "resize"
  /\ recalcLog.config.type = "container"
  /\ recalcLog.element = Some(300)
  /\ recalcLog.duration = 20000
  /\ FracEq(pxPerMs, <<3, 200>>)

\* the container-derived rate of a recalc, in px per ms: clientWidth /
\* durationMs, taken as 0 when the width or the duration is not positive
LoggedContainerRate ==
  IF recalcLog.duration > 0 /\ recalcLog.element[1] > 0
    THEN <<recalcLog.element[1], recalcLog.duration>> ELSE <<0, 1>>

\* the last recalc ran with an auto config and a mounted container
LoggedAutoRecalc ==
  /\ recalcLog.op # "init"
  /\ recalcLog.config.type = "auto"
  /\ recalcLog.element # None

\* the rate is at least minPxPerSecond (default: fixedPxPerSecond)
LoggedRateAboveMin ==
  LET lo == IF recalcLog.config.minPxPerSecond # None
              THEN recalcLog.config.minPxPerSecond[1]
              ELSE recalcLog.config.fixedPxPerSecond
  IN LoggedContainerRate[1] * 1000 >= lo * LoggedContainerRate[2]

\* the rate is at most the maxPxPerSecond of the config
LoggedRateBelowMax ==
  LoggedContainerRate[1] * 1000
    <= recalcLog.config.maxPxPerSecond[1] * LoggedContainerRate[2]

\* C11 as stated: after a recalc with an auto config, a mounted container and
\* a positive duration, the scale is the container-derived rate exactly when
\* that rate is >= minPxPerSecond and, if maxPxPerSecond is set (to any
\* number), <= maxPxPerSecond; otherwise it is fixedPxPerSecond / 1000.
AutoSelectsByMinMaxWhenSet ==
  LoggedAutoRecalc /\ recalcLog.duration > 0 =>
    LET inRange ==
          /\ LoggedRateAboveMin
          /\ recalcLog.config.maxPxPerSecond # None => LoggedRateBelowMax
    IN FracEq(pxPerMs, IF inRange THEN LoggedContainerRate
                       ELSE <<recalcLog.config.fixedPxPerSecond, 1000>>)

\* C11 amended: the same selection, where a maxPxPerSecond of 0 counts as
\* not set and the container-derived rate is 0 for a width or a duration
\* that is not positive.
AutoSelectsByMinMax ==
  LoggedAutoRecalc =>
    LET maxSet == /\ recalcLog.config.maxPxPerSecond # None
                  /\ recalcLog.config.maxPxPerSecond[1] # 0
        inRange == /\ LoggedRateAboveMin
                   /\ maxSet => LoggedRateBelowMax
    IN FracEq(pxPerMs, IF inRange THEN LoggedContainerRate
                       ELSE <<recalcLog.config.fixedPxPerSecond, 1000>>)

\* C11 witness: a container of 1000 px over 10 s gives 100 px per second,
\* above a maxPxPerSecond of 80, and the recalc fell back to 50 px per second
AutoSelectsWitness ==
  /\ LoggedAutoRecalc
  /\ recalcLog.element = Some(1000)
  /\ recalcLog.duration = 10000
  /\ recalcLog.config.maxPxPerSecond = Some(80)
  /\ recalcLog.config.minPxPerSecond = Some(20)
  /\ FracEq(pxPerMs, <<50, 1000>>)

\* the scale in effect is at least lo px per second
ScaleAtLeast(lo) == pxPerMs[1] * 1000 >= lo * pxPerMs[2]
\* the scale in effect is at most hi px per second
ScaleAtMost(hi) == pxPerMs[1] * 1000 <= hi * pxPerMs[2]

\* the scale in effect is within the limits the logged config sets
ScaleWithinLoggedLimits ==
  /\ recalcLog.config.minPxPerSecond # None =>
       ScaleAtLeast(recalcLog.config.minPxPerSecond[1])
  /\ recalcLog.config.maxPxPerSecond # None =>
       ScaleAtMost(recalcLog.config.maxPxPerSecond[1])

\* C12: after a recalc with any auto config and a mounted container, the
\* scale in px per second is never below minPxPerSecond when it is set and
\* never above maxPxPerSecond when it is set.
AutoScaleWithinMinMax ==
  LoggedAutoRecalc => ScaleWithinLoggedLimits

\* C13: the mount runs recalc once for every config type; a window resize
\* runs recalc exactly when the hook is mounted with type "container" or
\* "auto"; with type "fixed", and after unmount, recalc is not a resize
\* listener.
RecalcOnMountAndResize ==
  /\ scaleOp.op = "Mount" => scaleOp.recalcRuns = 1 /\ recalcLog.op = "effect"
  /\ scaleOp.op = "WindowResize" =>
       scaleOp.recalcRuns =
         IF mounted = "yes" /\ scaleConfig.type \in {"container", "auto"}
           THEN 1 ELSE 0
  /\ resizeListener <=>
       mounted = "yes" /\ scaleConfig.type \in {"container", "auto"}

\* C13 witness: the type changed from "container" or "auto" to "fixed" and a
\* later resize event did not run recalc
RecalcOnResizeWitness ==
  /\ mounted = "yes"
  /\ scaleConfig.type = "fixed"
  /\ scaleOp = ScaleOp("WindowResize", 0)
  /\ recalcLog.op = "effect"
  /\ recalcLog.config.type = "fixed"
  /\ returnedScalingType = "auto"

\* C14: once the mount-time recalc has run, and after every later recalc,
\* the currentScalingType the hook has returned to its caller equals the
\* type of the config in effect.
CurrentScalingTypeIsConfigType ==
  mounted = "yes" /\ recalcLog.op # "init" =>
    returnedScalingType = scaleConfig.type

\* C15: when the drag of one track A ends while the pointer is over another
\* track B (dragOverTrackId = B), orderedTrackIds is the former order with A
\* removed and re-inserted at B's former index, onReorder was called once
\* with (newOrder, A, fromIndex, toIndex) and the drag state is reset; when
\* it ends over no other track the order is unchanged and onReorder was not
\* called.
ReorderOnDrop ==
  reorderLog.op = "onMouseUp" /\ reorderLog.listeners = 1 =>
    /\ dragState = IdleDragState
    /\ IF reorderLog.over # Null
         THEN LET newOrder == reorderedIds(reorderLog.order, reorderLog.trackId,
                                           reorderLog.over)
              IN /\ orderedTrackIds = newOrder
                 /\ reorderLog.onReorder =
                      <<[reorderedIds |-> newOrder,
                         movedId |-> reorderLog.trackId,
                         fromIndex |-> indexOf(reorderLog.order,
                                               reorderLog.trackId),
                         toIndex |-> indexOf(reorderLog.order,
                                             reorderLog.over)]>>
         ELSE /\ orderedTrackIds = reorderLog.order
              /\ reorderLog.onReorder = <<>>

SingleAutoScrollLoop ==
  /\ [](Cardinality(rafPending) <= 1)
  /\ [][frame'.op = "startAutoScroll" /\ (isInitializedRef \/ containerRef' = Null)
          => UNCHANGED <<containerRef, onScrollChangeRef, rafPending>>]_vars

====
